---- MODULE Spec2Model ----
(***************************************************************************)
(* A model of the pid-loop crate (src/lib.rs): the PID<F> controller, its  *)
(* constructor `new`, and the operations `reset`, `set_min_error_sum`,     *)
(* `set_max_error_sum` and `next`.                                         *)
(*                                                                         *)
(* The numeric type F is modelled by the integers (the crate's doc example *)
(* instantiates PID::<i128>); every `next` call is guarded so that the     *)
(* accumulated sums stay within -MaxSum..MaxSum, i.e. the model covers the *)
(* runs in which F does not overflow.  Option<F> is modelled by a sequence *)
(* of length 0 (None) or 1 (Some(v)).                                      *)
(***************************************************************************)
EXTENDS Integers, Sequences, FiniteSets

VARIABLES
    pid,            \* the controller: the fields of struct PID<F>
    call,           \* the most recent call made on the controller and its result
    prev_error,     \* error of the previous `next` call, 0 if none since new/reset
    zero_run,       \* every `next` call since construction had sp = fb
    zero_admitted,  \* zero_run, and the bounds admitted 0 at every such call
    tracking,       \* only `next` calls have been made since the last `reset`
    fresh,          \* a controller built by new(kp, ki, kd) at the last reset
    twin            \* as fresh, with the bounds of pid installed after new

vars == <<pid, call, prev_error, zero_run, zero_admitted, tracking, fresh, twin>>

----------------------------------------------------------------------------
(* Bounds of the model. *)

\* sp and fb are drawn from -MaxIn..MaxIn
MaxIn == 1

\* clamp bounds are drawn from -MaxBound..MaxBound
MaxBound == 1

\* a `next` call is taken only while the sums stay in -MaxSum..MaxSum
MaxSum == 2

Inputs == (0 - MaxIn)..MaxIn

BoundValues == (0 - MaxBound)..MaxBound

InRange(x) == (0 - MaxSum) <= x /\ x <= MaxSum

\* the gains <<kp, ki, kd>> a controller is constructed with
Gains == { <<2, 0 - 1, 3>>, <<1, 2, 0 - 1>>, <<0, 1, 0>> }

----------------------------------------------------------------------------
(* The numeric type F and Option<F>. *)

\* F::default()
Zero == 0

None == << >>

Some(v) == << v >>

IsSome(o) == Len(o) = 1

Unwrap(o) == o[1]

Options == {None} \cup {Some(v) : v \in BoundValues}

----------------------------------------------------------------------------
(* impl PID<F> *)

\* faulty variant of new: starts with a max bound of zero installed
new_with_max(kp, ki, kd) ==
    [kp |-> kp, ki |-> ki, kd |-> kd,
     last_error |-> Zero, error_sum |-> Zero,
     min_error_sum |-> None, max_error_sum |-> Some(Zero)]

new(kp, ki, kd) ==
    [kp |-> kp, ki |-> ki, kd |-> kd,
     last_error |-> Zero, error_sum |-> Zero,
     min_error_sum |-> None, max_error_sum |-> None]

\* faulty variant of reset: forgets to clear last_error
reset_keeps_last_error(self) ==
    [self EXCEPT !.error_sum = Zero]

\* faulty variant of reset: forgets to clear error_sum
reset_keeps_sum(self) ==
    [self EXCEPT !.last_error = Zero]

reset(self) ==
    [self EXCEPT !.last_error = Zero, !.error_sum = Zero]

\* faulty variant of set_min_error_sum: re-clamps the stored sum at once
set_min_error_sum_reclamps(self, min) ==
    [self EXCEPT !.min_error_sum = min,
                 !.error_sum = IF IsSome(min) /\ @ < Unwrap(min)
                               THEN Unwrap(min) ELSE @]

set_min_error_sum(self, min) ==
    [self EXCEPT !.min_error_sum = min]

set_max_error_sum(self, max) ==
    [self EXCEPT !.max_error_sum = max]

\* faulty variant of ClampMax: drops the guard `&error_sum > max`
ClampMax_always(error_sum, max) ==
    IF IsSome(max) THEN Unwrap(max) ELSE error_sum

\* match &self.max_error_sum { Some(max) if &error_sum > max => *max, _ => error_sum }
ClampMax(error_sum, max) ==
    IF IsSome(max) /\ error_sum > Unwrap(max) THEN Unwrap(max) ELSE error_sum

\* faulty variant of ClampMin: the min match is missing
ClampMin_skipped(error_sum, min) ==
    error_sum

\* match &self.min_error_sum { Some(min) if &error_sum < min => *min, _ => error_sum }
ClampMin(error_sum, min) ==
    IF IsSome(min) /\ error_sum < Unwrap(min) THEN Unwrap(min) ELSE error_sum

\* faulty variant of Clamp: the two matches in the other order
Clamp_min_first(error_sum, min, max) ==
    ClampMax(ClampMin(error_sum, min), max)

\* the two matches in the order `next` applies them: max, then min
Clamp(error_sum, min, max) ==
    ClampMin(ClampMax(error_sum, max), min)

\* faulty variant of next: the derivative term uses error, not error_delta
next_delta_is_error(self, sp, fb) ==
    LET error == sp - fb
        error_sum == Clamp(self.error_sum + error,
                           self.min_error_sum, self.max_error_sum)
        p == error * self.kp
        i == error_sum * self.ki
        d == error * self.kd
    IN  [self |-> [self EXCEPT !.last_error = error, !.error_sum = error_sum],
         ret  |-> p + i + d]

\* faulty variant of next: the feedback is not subtracted from the setpoint
next_ignores_fb(self, sp, fb) ==
    LET error == sp
        error_delta == error - self.last_error
        error_sum == Clamp(self.error_sum + error,
                           self.min_error_sum, self.max_error_sum)
        p == error * self.kp
        i == error_sum * self.ki
        d == error_delta * self.kd
    IN  [self |-> [self EXCEPT !.last_error = error, !.error_sum = error_sum],
         ret  |-> p + i + d]

\* next returns the correction and leaves the controller in the state `self`
next(self, sp, fb) ==
    LET error == sp - fb
        error_delta == error - self.last_error
        error_sum == Clamp(self.error_sum + error,
                           self.min_error_sum, self.max_error_sum)
        p == error * self.kp
        i == error_sum * self.ki
        d == error_delta * self.kd
    IN  [self |-> [self EXCEPT !.last_error = error, !.error_sum = error_sum],
         ret  |-> p + i + d]

----------------------------------------------------------------------------
(* The caller: one controller, and the calls made on it. *)

\* `first` marks the first call made on the controller since new returned it
Called(op, sp, fb, arg, ret) ==
    [op |-> op, sp |-> sp, fb |-> fb, arg |-> arg, ret |-> ret,
     first |-> (call.op = "new")]

\* the reference controllers while no comparison is running
Idle == [pid |-> new(Zero, Zero, Zero), ret |-> Zero]

AdmitsZero(min, max) ==
    /\ IsSome(min) => Unwrap(min) <= Zero
    /\ IsSome(max) => Unwrap(max) >= Zero

Init ==
    /\ \E g \in Gains : pid = new(g[1], g[2], g[3])
    /\ call = [op |-> "new", sp |-> Zero, fb |-> Zero, arg |-> None, ret |-> Zero,
               first |-> FALSE]
    /\ prev_error = Zero
    /\ zero_run = TRUE
    /\ zero_admitted = TRUE
    /\ tracking = FALSE
    /\ fresh = Idle
    /\ twin = Idle

CallNext(sp, fb) ==
    LET r == next(pid, sp, fb)
        f == next(fresh.pid, sp, fb)
        t == next(twin.pid, sp, fb)
    IN  /\ InRange(pid.error_sum + (sp - fb))
        /\ tracking => InRange(fresh.pid.error_sum + (sp - fb))
        /\ pid' = r.self
        /\ call' = Called("next", sp, fb, None, r.ret)
        /\ prev_error' = sp - fb
        /\ zero_run' = (zero_run /\ sp = fb)
        /\ zero_admitted' =
               /\ zero_admitted
               /\ sp = fb
               /\ AdmitsZero(pid.min_error_sum, pid.max_error_sum)
        /\ fresh' = IF tracking THEN [pid |-> f.self, ret |-> f.ret] ELSE fresh
        /\ twin' = IF tracking THEN [pid |-> t.self, ret |-> t.ret] ELSE twin
        /\ UNCHANGED tracking

CallReset ==
    /\ pid' = reset(pid)
    /\ call' = Called("reset", Zero, Zero, None, Zero)
    /\ prev_error' = Zero
    /\ tracking' = TRUE
    /\ fresh' = [pid |-> new(pid.kp, pid.ki, pid.kd), ret |-> Zero]
    /\ twin' = [pid |-> set_max_error_sum(
                            set_min_error_sum(new(pid.kp, pid.ki, pid.kd),
                                              pid.min_error_sum),
                            pid.max_error_sum),
                ret |-> Zero]
    /\ UNCHANGED <<zero_run, zero_admitted>>

CallSetMin(min) ==
    /\ pid' = set_min_error_sum(pid, min)
    /\ call' = Called("set_min_error_sum", Zero, Zero, min, Zero)
    /\ tracking' = FALSE
    /\ fresh' = Idle
    /\ twin' = Idle
    /\ UNCHANGED <<prev_error, zero_run, zero_admitted>>

CallSetMax(max) ==
    /\ pid' = set_max_error_sum(pid, max)
    /\ call' = Called("set_max_error_sum", Zero, Zero, max, Zero)
    /\ tracking' = FALSE
    /\ fresh' = Idle
    /\ twin' = Idle
    /\ UNCHANGED <<prev_error, zero_run, zero_admitted>>

Next ==
    \/ \E sp \in Inputs, fb \in Inputs : CallNext(sp, fb)
    \/ CallReset
    \/ \E min \in Options : CallSetMin(min)
    \/ \E max \in Options : CallSetMax(max)

Spec == Init /\ [][Next]_vars

----------------------------------------------------------------------------
(* Properties of the controller. *)

\* C1: every `next` call returns kp*error + ki*error_sum + kd*error_delta, where
\* error = sp - fb, error_delta = error minus the error of the previous `next`
\* call (zero if there was none since construction or reset), and error_sum is
\* the newly stored sum: the previous stored sum plus error, clamped to the
\* configured bounds.
C1_NextReturnsPidTerms ==
    [][call'.op = "next" =>
        LET error == call'.sp - call'.fb
            error_delta == error - prev_error
            raw == pid.error_sum + error
            lo == pid.min_error_sum
            hi == pid.max_error_sum
            ordered == (IsSome(lo) /\ IsSome(hi)) => Unwrap(lo) <= Unwrap(hi)
            above == IsSome(hi) /\ raw > Unwrap(hi)
            below == IsSome(lo) /\ raw < Unwrap(lo)
        IN  /\ call'.ret = pid.kp * error + pid.ki * pid'.error_sum
                               + pid.kd * error_delta
            /\ (~above /\ ~below) => pid'.error_sum = raw
            /\ (above /\ ordered) => pid'.error_sum = Unwrap(hi)
            /\ (below /\ ordered) => pid'.error_sum = Unwrap(lo)
            /\ pid'.last_error = error
    ]_vars

\* C1 witness: a `next` call with error 2 after an earlier call, whose sum was
\* clamped to max = 1 and whose correction differs from the first-call value.
C1_Witness ==
    /\ call.op = "next"
    /\ ~call.first
    /\ call.sp - call.fb = 2
    /\ pid.max_error_sum = Some(1)
    /\ pid.error_sum = 1
    /\ call.ret # (pid.kp + pid.ki + pid.kd) * 2
    /\ call.ret # 0

\* C2 as stated: after a `next` call made with both bounds set, the stored
\* error sum lies within [min, max], whatever min and max are.
C2_ClampInvariantAnyBounds ==
    (call.op = "next" /\ IsSome(pid.min_error_sum) /\ IsSome(pid.max_error_sum))
        => /\ Unwrap(pid.min_error_sum) <= pid.error_sum
           /\ pid.error_sum <= Unwrap(pid.max_error_sum)

\* C2 amended: after a `next` call made with both bounds set and min <= max,
\* the stored error sum lies within [min, max].
C2_ClampInvariant ==
    (/\ call.op = "next"
     /\ IsSome(pid.min_error_sum)
     /\ IsSome(pid.max_error_sum)
     /\ Unwrap(pid.min_error_sum) <= Unwrap(pid.max_error_sum))
        => /\ Unwrap(pid.min_error_sum) <= pid.error_sum
           /\ pid.error_sum <= Unwrap(pid.max_error_sum)

\* C2 witness: the errors fed since the last reset add up to 2 (the sum of the
\* unclamped reference controller), and the stored sum is held at max = 1.
C2_Witness ==
    /\ call.op = "next"
    /\ tracking
    /\ pid.min_error_sum = Some(0 - 1)
    /\ pid.max_error_sum = Some(1)
    /\ fresh.pid.error_sum = 2
    /\ pid.error_sum = 1

\* C3 as stated: after reset, the corrections equal those of a controller
\* freshly constructed with the same gains and fed the same inputs.
C3_ResetEqualsFresh ==
    (tracking /\ call.op = "next")
        => call.ret = fresh.ret

\* C3 amended: after reset, the corrections equal those of a controller freshly
\* constructed with the same gains, given the same clamp bounds with
\* set_min_error_sum / set_max_error_sum, and fed the same inputs.
C3_ResetEqualsFreshWithBounds ==
    (tracking /\ call.op = "next")
        => (call.ret = twin.ret /\ pid = twin.pid)

\* C3 witness: a second or later call on a reset controller whose correction
\* is nonzero, agrees with the reference that has the bounds and differs from
\* the one that has none.
C3_Witness ==
    /\ tracking
    /\ call.op = "next"
    /\ ~call.first
    /\ call.ret # 0
    /\ call.ret = twin.ret
    /\ call.ret # fresh.ret

\* C4 as stated: while every `next` call since construction had sp = fb, every
\* correction is zero, for any clamp bounds.
C4_ZeroErrorZeroCorrectionAnyBounds ==
    (zero_run /\ call.op = "next") => call.ret = Zero

\* C4 amended: while every `next` call since construction had sp = fb and was
\* made with bounds that admit zero (min unset or <= 0, max unset or >= 0),
\* every correction is zero.
C4_ZeroErrorZeroCorrection ==
    (zero_admitted /\ call.op = "next") => call.ret = Zero

\* C4 witness: a zero-error call with sp = fb = 1, a nonzero integral gain and
\* both bounds set.
C4_Witness ==
    /\ zero_admitted
    /\ call.op = "next"
    /\ call.sp = 1
    /\ call.fb = 1
    /\ pid.ki # 0
    /\ IsSome(pid.min_error_sum)
    /\ IsSome(pid.max_error_sum)

\* C5: set_min_error_sum and set_max_error_sum change only their own bound:
\* error sum, last error, gains and the other bound are as before, also when
\* the sum lies outside the new bound; the `next` call that follows applies it.
C5_SettersOnlySetBound ==
    [][/\ call'.op = "set_min_error_sum" =>
            /\ pid'.min_error_sum = call'.arg
            /\ pid'.max_error_sum = pid.max_error_sum
            /\ pid'.error_sum = pid.error_sum
            /\ pid'.last_error = pid.last_error
            /\ <<pid'.kp, pid'.ki, pid'.kd>> = <<pid.kp, pid.ki, pid.kd>>
       /\ call'.op = "set_max_error_sum" =>
            /\ pid'.max_error_sum = call'.arg
            /\ pid'.min_error_sum = pid.min_error_sum
            /\ pid'.error_sum = pid.error_sum
            /\ pid'.last_error = pid.last_error
            /\ <<pid'.kp, pid'.ki, pid'.kd>> = <<pid.kp, pid.ki, pid.kd>>
       /\ (call.op = "set_min_error_sum" /\ IsSome(call.arg) /\ call'.op = "next")
            => pid'.error_sum >= Unwrap(call.arg)
       /\ (/\ call.op = "set_max_error_sum"
           /\ IsSome(call.arg)
           /\ ~IsSome(pid.min_error_sum)
           /\ call'.op = "next")
            => pid'.error_sum <= Unwrap(call.arg)
    ]_vars

\* C5 witness: set_min_error_sum(Some(1)) has returned and the stored sum is
\* still below 1.
C5_Witness ==
    /\ call.op = "set_min_error_sum"
    /\ call.arg = Some(1)
    /\ pid.error_sum < 1
    /\ pid.last_error # 0

\* C6: reset zeroes the stored error sum and the last error and keeps the gains.
C6_ResetClearsHistory ==
    [][call'.op = "reset" =>
        /\ pid'.error_sum = Zero
        /\ pid'.last_error = Zero
        /\ <<pid'.kp, pid'.ki, pid'.kd>> = <<pid.kp, pid.ki, pid.kd>>
    ]_vars

\* C6 witness: reset has returned on a controller that had seen a nonzero
\* error and has bounds installed.
C6_Witness ==
    /\ call.op = "reset"
    /\ ~zero_run
    /\ IsSome(pid.max_error_sum)
    /\ pid.error_sum = Zero
    /\ pid.last_error = Zero
    /\ pid.ki # 0

\* C7: new(kp, ki, kd) returns a controller with last error and error sum zero
\* and no bounds; its first call next(sp, fb) returns kp*e + ki*e + kd*e with
\* e = sp - fb and stores the sum e.  With the gains 2, 0.7, 0.3 written in
\* tenths (20, 7, 3), next(42, 0) returns 1260 tenths, i.e. 126.
C7_NewAndFirstNext ==
    /\ call.op = "new" =>
            /\ pid.last_error = Zero
            /\ pid.error_sum = Zero
            /\ pid.min_error_sum = None
            /\ pid.max_error_sum = None
    /\ (call.op = "next" /\ call.first) =>
            LET e == call.sp - call.fb
            IN  /\ call.ret = pid.kp * e + pid.ki * e + pid.kd * e
                /\ pid.error_sum = e
    /\ next(new(20, 7, 3), 42, 0).ret = 1260
    /\ next(new(20, 7, 3), 42, 0).self.error_sum = 42

\* C7 witness: the first call on a new controller, with error 2.
C7_Witness ==
    /\ call.op = "next"
    /\ call.first
    /\ call.sp - call.fb = 2
    /\ pid.error_sum = 2
    /\ call.ret # 0

\* C8: with only max set, `next` stores the lesser of (previous sum + error)
\* and max; with only min set, the greater of (previous sum + error) and min.
C8_SingleBoundOneSided ==
    [][call'.op = "next" =>
        LET raw == pid.error_sum + (call'.sp - call'.fb)
            lo == pid.min_error_sum
            hi == pid.max_error_sum
        IN  /\ (IsSome(hi) /\ ~IsSome(lo)) =>
                   pid'.error_sum = IF raw < Unwrap(hi) THEN raw ELSE Unwrap(hi)
            /\ (IsSome(lo) /\ ~IsSome(hi)) =>
                   pid'.error_sum = IF raw > Unwrap(lo) THEN raw ELSE Unwrap(lo)
    ]_vars

\* C8 witness: only max = 0 is set and a `next` call has stored a sum below it,
\* which a min bound would have raised.
C8_Witness ==
    /\ call.op = "next"
    /\ pid.max_error_sum = Some(0)
    /\ pid.min_error_sum = None
    /\ pid.error_sum = 0 - 2

\* C10: with both bounds set and min > max, every `next` call stores min.
C10_MinWinsWhenCrossed ==
    (/\ call.op = "next"
     /\ IsSome(pid.min_error_sum)
     /\ IsSome(pid.max_error_sum)
     /\ Unwrap(pid.min_error_sum) > Unwrap(pid.max_error_sum))
        => pid.error_sum = Unwrap(pid.min_error_sum)

\* C10 witness: a `next` call with min = 1 and max = -1 has stored 1.
C10_Witness ==
    /\ call.op = "next"
    /\ pid.min_error_sum = Some(1)
    /\ pid.max_error_sum = Some(0 - 1)
    /\ pid.error_sum = 1

====
